---- MODULE Spec2Model ----
(***************************************************************************)
(* Object lifecycle (src/src/object.h) and collision resolver              *)
(* (src/src/engine/mesh.h) of TP1-ComputacaoGrafica.                       *)
(*                                                                         *)
(* Spec     : the entity tree, the deferred destruction protocol and the   *)
(*            recursive update() with its hooks, as a call-stack machine.  *)
(* SpecMotion: the tick on entities constructed with velocities and        *)
(*            accelerations, whose update hooks also restructure the tree. *)
(* SpecGeo  : the collision resolver as a pure function applied to shapes  *)
(*            drawn from a bounded integer grid.                           *)
(* SpecRect : the setters of a rectangle, called through Rectangle2D and   *)
(*            through Mesh.                                                *)
(*                                                                         *)
(* Environment of Spec.  The driver (the code that owns the entities)      *)
(* calls the public methods while no update() is running; it calls them    *)
(* only on entities whose storage is still allocated, but may pass any     *)
(* entity as an argument.  The virtual hooks are empty in Object; a        *)
(* subclass may override them.  beforeUpdate/afterUpdate are modelled as   *)
(* doing nothing, requesting a destroy(), or calling update() on some      *)
(* entity (in SpecMotion also as calling addChild()/removeChild());        *)
(* beforeDestroy/afterDestroy as doing nothing or requesting a destroy().  *)
(* beforeDraw/afterDraw/onCollision are const or take a const argument and *)
(* are modelled as doing nothing.                                          *)
(***************************************************************************)
EXTENDS Integers, Sequences, FiniteSets, TLC

\* ------------------------------------------------------------- bounds
NumObjects == 3
MaxOps == 4
MaxDepth == 3
MaxMarked == 2

NULL == 0
Ent == 1..NumObjects

VARIABLES
    invalid,         \* Object::invalid: the registry of invalid entities
    freed,           \* entities whose storage has been released (delete obj)
    marked,          \* Object::marked: the pending stack, top at the end
    display,         \* Object::display
    parent,          \* Object::parent (NULL or an entity)
    children,        \* Object::children
    destroy_shared,  \* the static flag of Object::update
    callStack,       \* the frames of the running update() calls, top at the end
    teardowns,       \* how often the teardown of each entity was entered
    requests,        \* how often destroy() was called on each entity by driver or hook
    drawError,       \* the last draw() printed "drawing error"
    collisions,      \* the onCollision calls of the last detectCollisions(): <<callee, other>>
    fault,           \* some step dereferenced a null or a freed entity
    crashed,         \* the process was aborted by such a step
    ops,             \* calls made so far by the driver and by hooks
    geo,             \* the operands of one detect call and its results
    position,        \* Object::position
    speed,           \* Object::speed
    acceleration,    \* Object::acceleration
    mesh             \* the Rectangle2D the setters are called on

objVars == <<invalid, freed, marked, display, parent, children, destroy_shared,
             callStack, teardowns, requests, drawError, collisions, fault,
             crashed, ops>>

motion == <<position, speed, acceleration>>

vars == <<objVars, geo, motion, mesh>>

\* ------------------------------------------------------------ helpers
Range(s) == {s[i] : i \in 1..Len(s)}

RECURSIVE Perms(_)
Perms(S) ==
    IF S = {} THEN {<<>>}
    ELSE UNION {{<<x>> \o p : p \in Perms(S \ {x})} : x \in S}

Top == callStack[Len(callStack)]
Below == SubSeq(callStack, 1, Len(callStack) - 1)
SetTop(f) == [callStack EXCEPT ![Len(callStack)] = f]

\* The part of the state the methods of Object read and write, as one value,
\* so that a method that calls another composes.
Heap ==
    [invalid |-> invalid, parent |-> parent, children |-> children,
     display |-> display, marked |-> marked, requests |-> requests,
     null |-> FALSE, uaf |-> FALSE]

\* isValid with the registry never consulted.
isValidAlways(h, obj) == TRUE

\* Object::isValid: a lookup of the pointer in the registry; NULL is never
\* inserted, so isValid(NULL) is true.
isValid(h, obj) == obj \notin h.invalid

\* A member of a null `this` is read or written.
NullDeref(h) == [h EXCEPT !.null = TRUE]

\* Object::addChild
addChild(h, this, obj) ==
    IF isValid(h, this) /\ isValid(h, obj)
    THEN IF this = NULL
         THEN NullDeref([h EXCEPT !.parent[obj] = NULL])
         ELSE [h EXCEPT !.parent[obj] = this,
                        !.children[this] = @ \cup {obj}]
    ELSE h

\* Object::removeChild
removeChild(h, this, obj) ==
    IF isValid(h, this) /\ isValid(h, obj)
    THEN IF this = NULL
         THEN NullDeref([h EXCEPT !.parent[obj] = NULL])
         ELSE [h EXCEPT !.parent[obj] = NULL,
                        !.children[this] = @ \ {obj}]
    ELSE h

\* Object::setParent: adds obj to the child set of this->parent.
setParent(h, this, obj) ==
    IF isValid(h, this) /\ isValid(h, obj)
    THEN addChild(h, h.parent[this], obj)
    ELSE h

\* Object::removeParent
removeParent(h, this) ==
    IF isValid(h, this) /\ isValid(h, h.parent[this])
    THEN removeChild(h, h.parent[this], this)
    ELSE h

\* destroy() that leaves an entity already pending alone.
destroyOnce(h, this) ==
    IF this \in Range(h.marked) THEN h
    ELSE [h EXCEPT !.display[this] = FALSE, !.marked = Append(@, this)]

\* destroy() that also enters the entity in the registry at once.
destroyInvalidates(h, this) ==
    [h EXCEPT !.display[this] = FALSE, !.marked = Append(@, this),
              !.invalid = @ \cup {this}]

\* Object::destroy: clears display and pushes this, unconditionally.  On an
\* entity whose storage is released the write goes to freed memory.
destroy(h, this) ==
    IF this \in freed
    THEN [h EXCEPT !.uaf = TRUE, !.marked = Append(@, this)]
    ELSE [h EXCEPT !.display[this] = FALSE, !.marked = Append(@, this)]

\* destroy() called by the driver or by a hook (not by the cascade).
requestDestroy(h, this) ==
    [destroy(h, this) EXCEPT !.requests[this] = @ + 1]

\* The loop `for (child : obj->getChildren()) child->destroy()` in the order
\* given by the sequence order.
RECURSIVE destroyAll(_, _)
destroyAll(h, order) ==
    IF order = <<>> THEN h
    ELSE destroyAll(destroy(h, Head(order)), Tail(order))

\* beforeDestroy has returned: removeParent, the cascade to the children in
\* the order the child set yields them, children.clear(), the release of
\* background and mesh, and the insertion into the registry.
Teardown(h, obj, order) ==
    LET h1 == removeParent(h, obj)
        h2 == IF h1.null THEN h1 ELSE destroyAll(h1, order)
    IN  IF h2.null THEN h2
        ELSE [h2 EXCEPT !.children[obj] = {}, !.invalid = @ \cup {obj}]

\* Object::collider is private, initialised to NULL and assigned nowhere.
collider == [e \in Ent |-> NULL]

\* Object::collides
collides(this) == collider[this] # NULL

\* Object::detectCollision
Object_detectCollision(this, other) == FALSE

\* Object::detectCollisions over the child set in the order `order`: the
\* onCollision calls made, as <<callee, argument>>.
detectCollisions(h, order) ==
    LET hit == {<<i, j>> \in (1..Len(order)) \X (1..Len(order)) :
                    /\ i < j
                    /\ isValid(h, order[i]) /\ collides(order[i])
                    /\ Object_detectCollision(order[i], order[j])}
    IN  {<<order[p[1]], order[p[2]]>> : p \in hit}
            \cup {<<order[p[2]], order[p[1]]>> : p \in hit}

\* Object::draw: whether "drawing error" is printed, and whether the
\* recursion over the child sets never ends (a child set that leads back to
\* an entity being drawn).  A path of more than NumObjects entities repeats one.
RECURSIVE draw(_, _, _)
draw(h, this, fuel) ==
    IF fuel = 0 THEN [err |-> FALSE, overflow |-> TRUE]
    ELSE IF isValid(h, this)
    THEN IF h.display[this]
         THEN LET sub == {draw(h, c, fuel - 1) : c \in h.children[this]}
              IN  [err |-> \E r \in sub : r.err,
                   overflow |-> \E r \in sub : r.overflow]
         ELSE [err |-> FALSE, overflow |-> FALSE]
    ELSE [err |-> TRUE, overflow |-> FALSE]

\* Writes the heap h back.  A member of a null `this` is reached through
\* `this->children.erase(obj)` / `insert(obj)`, which reads the hash table at
\* an address next to zero: the process is aborted.  A write to freed storage
\* is undefined: the process is aborted or goes on.
Commit(h) ==
    /\ invalid' = h.invalid
    /\ parent' = h.parent
    /\ children' = h.children
    /\ display' = h.display
    /\ marked' = h.marked
    /\ requests' = h.requests
    /\ fault' = (fault \/ h.null \/ h.uaf)
    /\ crashed' \in (IF h.null THEN {TRUE}
                     ELSE IF h.uaf THEN {TRUE, FALSE}
                     ELSE {FALSE})

\* ================================================== collision resolver
\* Vectors are <<x, y, z>> of integers.  The code computes in doubles; the
\* model computes the same expressions exactly (lengths are compared through
\* their squares, and sine and cosine are taken at multiples of 90 degrees,
\* where they are 0, 1 or -1).
GridMax == 2
MaxSize == 4
MaxRadius == 2
MaxSpeed == 3

Zero3 == <<0, 0, 0>>
Vadd(a, b) == <<a[1] + b[1], a[2] + b[2], a[3] + b[3]>>
Vsub(a, b) == <<a[1] - b[1], a[2] - b[2], a[3] - b[3]>>
Vscale(k, a) == <<k * a[1], k * a[2], k * a[3]>>
Abs(x) == IF x < 0 THEN -x ELSE x

\* Mesh::zero
zero(vec) == vec[1] = 0 /\ vec[2] = 0 /\ vec[3] = 0

\* Mesh::dot
dot(ray_1, ray_2) == ray_1[1] * ray_2[1] + ray_1[2] * ray_2[2] + ray_1[3] * ray_2[3]

\* Mesh::norm2
norm2(ray) == dot(ray, ray)

\* Mesh::norm, for the vectors along an axis the model uses.
norm(ray) == Abs(ray[1]) + Abs(ray[2]) + Abs(ray[3])

\* Mesh::areaTriangle2D, doubled (the code multiplies by 0.5).
areaTriangle2D(tri_point_1, tri_point_2, tri_point_3) ==
    Abs(tri_point_1[1] * (tri_point_2[2] - tri_point_3[2])
        + tri_point_2[1] * (tri_point_3[2] - tri_point_1[2])
        + tri_point_3[1] * (tri_point_1[2] - tri_point_2[2]))

\* Mesh::areaRectangle2D, squared: norm(bl - tl)^2 * norm(br - bl)^2.
areaRectangle2D(rect_top_left, rect_bottom_left, rect_bottom_right) ==
    norm2(Vsub(rect_bottom_left, rect_top_left))
        * norm2(Vsub(rect_bottom_right, rect_bottom_left))

\* Mesh::edgesRectangle2D
edgesRectangle2D(rect_top_left, rect_bottom_left, rect_bottom_right, rect_top_right) ==
    << <<rect_top_left, rect_bottom_left>>,
       <<rect_bottom_left, rect_bottom_right>>,
       <<rect_bottom_right, rect_top_right>>,
       <<rect_top_right, rect_top_left>> >>

\* Mesh::distanceRayToPoint with infinite = false: the square of the distance
\* it returns, as the fraction <<numerator, denominator>>.  param is
\* n / length_pow clamped to [0, 1].
distanceRayToPoint(ray_start, ray_end, point) ==
    LET delta_ray == Vsub(ray_end, ray_start)
        length_pow == norm2(delta_ray)
        n == dot(Vsub(point, ray_start), delta_ray)
    IN  IF length_pow = 0 THEN <<norm2(Vsub(point, ray_start)), 1>>
        ELSE IF n <= 0 THEN <<norm2(Vsub(point, ray_start)), 1>>
        ELSE IF n >= length_pow THEN <<norm2(Vsub(point, ray_end)), 1>>
        ELSE <<norm2(Vsub(point, ray_start)) * length_pow - n * n, length_pow>>

\* Mesh::collisionRaySphere: distance <= circle_radius.
collisionRaySphere(ray_start, ray_end, circle_center, circle_radius) ==
    LET d == distanceRayToPoint(ray_start, ray_end, circle_center)
    IN  d[1] <= circle_radius * circle_radius * d[2]

\* Mesh::collisionSpheres: distance of the centres <= sum of the radii.
collisionSpheres(position_1, radius_1, position_2, radius_2) ==
    norm2(Vsub(position_1, position_2)) <= (radius_1 + radius_2) * (radius_1 + radius_2)

\* Mesh::collisionPointRectangle2D is declared in mesh.h and defined elsewhere.
\* Modelled with the helpers mesh.h declares for it: the point lies in the
\* rectangle iff the four triangles it spans with the edges do not exceed the
\* rectangle's area.  For a rectangle this is `the point lies inside`.
collisionPointRectangle2D(point, rect_top_left, rect_bottom_left, rect_bottom_right, rect_top_right) ==
    LET e == edgesRectangle2D(rect_top_left, rect_bottom_left, rect_bottom_right, rect_top_right)
        sum == areaTriangle2D(point, e[1][1], e[1][2]) + areaTriangle2D(point, e[2][1], e[2][2])
               + areaTriangle2D(point, e[3][1], e[3][2]) + areaTriangle2D(point, e[4][1], e[4][2])
    IN  sum * sum <= 4 * areaRectangle2D(rect_top_left, rect_bottom_left, rect_bottom_right)

\* Whether two closed segments share a point.
Orient(a, b, c) == (b[1] - a[1]) * (c[2] - a[2]) - (b[2] - a[2]) * (c[1] - a[1])
Sign(x) == IF x > 0 THEN 1 ELSE IF x < 0 THEN -1 ELSE 0
Between(a, b, c) ==
    /\ (IF a[1] < b[1] THEN a[1] ELSE b[1]) <= c[1]
    /\ c[1] <= (IF a[1] < b[1] THEN b[1] ELSE a[1])
    /\ (IF a[2] < b[2] THEN a[2] ELSE b[2]) <= c[2]
    /\ c[2] <= (IF a[2] < b[2] THEN b[2] ELSE a[2])
SegmentsMeet(p, q) ==
    LET d1 == Sign(Orient(q[1], q[2], p[1]))
        d2 == Sign(Orient(q[1], q[2], p[2]))
        d3 == Sign(Orient(p[1], p[2], q[1]))
        d4 == Sign(Orient(p[1], p[2], q[2]))
    IN  \/ (d1 * d2 < 0 /\ d3 * d4 < 0)
        \/ (d1 = 0 /\ Between(q[1], q[2], p[1]))
        \/ (d2 = 0 /\ Between(q[1], q[2], p[2]))
        \/ (d3 = 0 /\ Between(p[1], p[2], q[1]))
        \/ (d4 = 0 /\ Between(p[1], p[2], q[2]))

\* Mesh::collisionRectangles2D is declared in mesh.h and defined elsewhere.
\* Modelled from the specification: an edge of one meets an edge of the
\* other, or the top-left corner of one lies inside the other.
collisionRectangles2D(tl1, bl1, br1, tr1, tl2, bl2, br2, tr2) ==
    LET e1 == edgesRectangle2D(tl1, bl1, br1, tr1)
        e2 == edgesRectangle2D(tl2, bl2, br2, tr2)
    IN  \/ \E i, j \in 1..4 : SegmentsMeet(e1[i], e2[j])
        \/ collisionPointRectangle2D(tl1, tl2, bl2, br2, tr2)
        \/ collisionPointRectangle2D(tl2, tl1, bl1, br1, tr1)

\* Mesh::collisionRectangleCircle2D.  The call of collisionPointRectangle2D
\* passes (rect_top_left, rect_bottom_left, rect_bottom_right, rect_top_right,
\* circle_center) to the parameters (point, rect_top_left, rect_bottom_left,
\* rect_bottom_right, rect_top_right).
collisionRectangleCircle2D(rect_top_left, rect_bottom_left, rect_bottom_right, rect_top_right, circle_center, circle_radius) ==
    \/ collisionRaySphere(rect_top_left, rect_top_right, circle_center, circle_radius)
    \/ collisionRaySphere(rect_top_right, rect_bottom_right, circle_center, circle_radius)
    \/ collisionRaySphere(rect_bottom_left, rect_bottom_right, circle_center, circle_radius)
    \/ collisionRaySphere(rect_top_left, rect_bottom_left, circle_center, circle_radius)
    \/ collisionPointRectangle2D(rect_top_left, rect_bottom_left, rect_bottom_right, rect_top_right, circle_center)

\* ------------------------------------------------------------- shapes
\* An angle is kept as <<cos, sin>>.
NoShape == [type |-> "none"]

\* Rectangle2D::updatePositions
updatePositions(rect) ==
    LET c == rect.angle[1]
        s == rect.angle[2]
        delta_height == <<rect.height * s, rect.height * (-c), 0>>
        top_right == Vadd(rect.position, <<rect.width * c, rect.width * s, 0>>)
    IN  [rect EXCEPT !.top_right = top_right,
                     !.bottom_left = Vadd(rect.position, delta_height),
                     !.bottom_right = Vadd(top_right, delta_height)]

\* Rectangle2D::Rectangle2D
Rectangle2D(_position, width, height, angle) ==
    updatePositions([type |-> "rectangle2d", position |-> _position,
                     width |-> width, height |-> height, angle |-> angle,
                     top_right |-> Zero3, bottom_left |-> Zero3,
                     bottom_right |-> Zero3])

\* Polygon2D::Polygon2D and Sphere2D::Sphere2D (a Polygon2D of 100 sides
\* whose getType() is "sphere2d").
Polygon2D(type, _position, radius) ==
    [type |-> type, position |-> _position, radius |-> radius]

\* atan2(speed[1], speed[0]) as <<cos, sin>>; atan2(0, 0) is 0.
Direction(_speed) ==
    IF _speed[1] = 0 /\ _speed[2] = 0 THEN <<1, 0>>
    ELSE <<Sign(_speed[1]), Sign(_speed[2])>>

\* Mesh::getCollisionSpace (nullptr) and Polygon2D::getCollisionSpace.
getCollisionSpace(this, _speed) ==
    IF this.type \in {"polygon2d", "sphere2d"}
    THEN LET angle == Direction(_speed)
             difference == <<this.radius * (-angle[2]), this.radius * angle[1], 0>>
             top_position == Vadd(this.position, difference)
         IN  Rectangle2D(top_position, norm(_speed), this.radius * 2, angle)
    ELSE NoShape

RECURSIVE detectCollision(_, _, _, _, _, _, _)

\* Mesh::detectCollision: the continuous phase, then the swapped retry.
Mesh_detectCollision(this, other, my_offset, my_speed, other_offset, other_speed, try_inverse) ==
    LET my_space == getCollisionSpace(this, my_speed)
        other_space == getCollisionSpace(other, other_speed)
        continuous ==
            /\ ~(zero(my_speed) /\ zero(other_speed))
            /\ my_space # NoShape
            /\ \/ detectCollision(my_space, other, my_offset, Zero3,
                                  other_offset, other_speed, try_inverse)
               \/ /\ other_space # NoShape
                  /\ detectCollision(my_space, other_space, my_offset, Zero3,
                                     other_offset, Zero3, try_inverse)
    IN  \/ continuous
        \/ /\ try_inverse
           /\ detectCollision(other, this, other_offset, other_speed,
                              my_offset, my_speed, FALSE)

\* Rectangle2D::detectCollision
Rectangle2D_detectCollision(this, other, my_offset, my_speed, other_offset, other_speed, try_inverse) ==
    \/ /\ other.type = "rectangle2d"
       /\ collisionRectangles2D(
              Vadd(my_offset, this.position), Vadd(my_offset, this.bottom_left),
              Vadd(my_offset, this.bottom_right), Vadd(my_offset, this.top_right),
              Vadd(other_offset, other.position), Vadd(other_offset, other.bottom_left),
              Vadd(other_offset, other.bottom_right), Vadd(other_offset, other.top_right))
    \/ Mesh_detectCollision(this, other, my_offset, my_speed, other_offset,
                            other_speed, try_inverse)

\* Polygon2D::detectCollision
Polygon2D_detectCollision(this, other, my_offset, my_speed, other_offset, other_speed, try_inverse) ==
    \/ /\ other.type \in {"polygon2d", "sphere2d"}
       /\ collisionSpheres(Vadd(my_offset, this.position), this.radius,
                           Vadd(other_offset, other.position), other.radius)
    \/ /\ other.type = "rectangle2d"
       /\ collisionRectangleCircle2D(
              Vadd(other_offset, other.position), Vadd(other_offset, other.bottom_left),
              Vadd(other_offset, other.bottom_right), Vadd(other_offset, other.top_right),
              Vadd(my_offset, this.position), this.radius)
    \/ Mesh_detectCollision(this, other, my_offset, my_speed, other_offset,
                            other_speed, try_inverse)

\* The virtual call this->detectCollision(...).
detectCollision(this, other, my_offset, my_speed, other_offset, other_speed, try_inverse) ==
    IF this.type = "rectangle2d"
    THEN Rectangle2D_detectCollision(this, other, my_offset, my_speed,
                                     other_offset, other_speed, try_inverse)
    ELSE Polygon2D_detectCollision(this, other, my_offset, my_speed,
                                   other_offset, other_speed, try_inverse)

\* ---------------------------------------------------------------- Init
\* Every entity constructed with the default arguments: displayed, no parent,
\* no children, valid (the constructor erases it from the registry).
ObjInit ==
    /\ invalid = {}
    /\ freed = {}
    /\ marked = <<>>
    /\ display = [e \in Ent |-> TRUE]
    /\ parent = [e \in Ent |-> NULL]
    /\ children = [e \in Ent |-> {}]
    /\ destroy_shared = TRUE
    /\ callStack = <<>>
    /\ teardowns = [e \in Ent |-> 0]
    /\ requests = [e \in Ent |-> 0]
    /\ drawError = FALSE
    /\ collisions = {}
    /\ fault = FALSE
    /\ crashed = FALSE
    /\ ops = 0

\* No detect call is under way in the lifecycle specification.
NoGeo == [stage |-> "none"]

\* The default arguments of the constructor: at rest at the origin.
MotionDefault ==
    /\ position = [e \in Ent |-> Zero3]
    /\ speed = [e \in Ent |-> Zero3]
    /\ acceleration = [e \in Ent |-> Zero3]

Init == ObjInit /\ MotionDefault /\ geo = NoGeo /\ mesh = NoShape

\* ------------------------------------------------------- driver calls
Idle == callStack = <<>> /\ ~crashed /\ ops < MaxOps

DriverAddChild ==
    /\ Idle
    /\ \E this \in Ent, obj \in Ent : Commit(addChild(Heap, this, obj))
    /\ ops' = ops + 1
    /\ UNCHANGED <<geo, mesh, motion, freed, destroy_shared, callStack, teardowns, drawError, collisions>>

DriverRemoveChild ==
    /\ Idle
    /\ \E this \in Ent, obj \in Ent : Commit(removeChild(Heap, this, obj))
    /\ ops' = ops + 1
    /\ UNCHANGED <<geo, mesh, motion, freed, destroy_shared, callStack, teardowns, drawError, collisions>>

DriverSetParent ==
    /\ Idle
    /\ \E this \in Ent, obj \in Ent : Commit(setParent(Heap, this, obj))
    /\ ops' = ops + 1
    /\ UNCHANGED <<geo, mesh, motion, freed, destroy_shared, callStack, teardowns, drawError, collisions>>

DriverRemoveParent ==
    /\ Idle
    /\ \E this \in Ent : Commit(removeParent(Heap, this))
    /\ ops' = ops + 1
    /\ UNCHANGED <<geo, mesh, motion, freed, destroy_shared, callStack, teardowns, drawError, collisions>>

DriverDestroy ==
    /\ Idle
    /\ Len(marked) < MaxMarked
    /\ \E this \in Ent \ freed : Commit(requestDestroy(Heap, this))
    /\ ops' = ops + 1
    /\ UNCHANGED <<geo, mesh, motion, freed, destroy_shared, callStack, teardowns, drawError, collisions>>

DriverDraw ==
    /\ Idle
    /\ \E this \in Ent :
          LET r == draw(Heap, this, NumObjects + 1) IN
             /\ drawError' = r.err
             /\ fault' = (fault \/ r.overflow)
             /\ crashed' = r.overflow
    /\ ops' = ops + 1
    /\ UNCHANGED <<geo, mesh, motion, invalid, freed, marked, display, parent, children,
                   destroy_shared, callStack, teardowns, requests, collisions>>

DriverDetectCollisions ==
    /\ Idle
    /\ \E this \in Ent \ freed :
          \E order \in Perms(children[this]) :
             collisions' = detectCollisions(Heap, order)
    /\ ops' = ops + 1
    /\ UNCHANGED <<geo, mesh, motion, invalid, freed, marked, display, parent, children,
                   destroy_shared, callStack, teardowns, requests, drawError,
                   fault, crashed>>

\* ------------------------------------------------------------- update
\* The integration step with the velocity advanced first.
integrateSpeedFirst(p, v, a) ==
    [position |-> Vadd(p, Vadd(v, a)), speed |-> Vadd(v, a), acceleration |-> a]

\* `this->position += this->speed; this->speed += this->acceleration;`
integrate(p, v, a) ==
    [position |-> Vadd(p, v), speed |-> Vadd(v, a), acceleration |-> a]

\* The integration step of the call on top of the stack.
Step ==
    LET obj == Top.obj
        r == integrate(position[obj], speed[obj], acceleration[obj])
    IN  /\ position' = [position EXCEPT ![obj] = r.position]
        /\ speed' = [speed EXCEPT ![obj] = r.speed]
        /\ acceleration' = [acceleration EXCEPT ![obj] = r.acceleration]

\* update() entered without the reentrancy guard: every call sweeps.
NewFrameUnguarded(this) ==
    [obj |-> this,
     destroy_local |-> TRUE,
     todo |-> IF isValid(Heap, this) THEN children[this] ELSE {},
     pc |-> IF isValid(Heap, this) THEN "beforeUpdate" ELSE "exit",
     cur |-> NULL,
     live |-> isValid(Heap, this),
     steps |-> 0,
     pending |-> <<>>]

\* Entry of Object::update: the static flag is copied and cleared, and for a
\* valid entity the child set is copied.  live records the outcome of the
\* validity test, steps the integration steps the call has made, pending
\* the pending stack as the call's sweep found it.
NewFrame(this) ==
    [obj |-> this,
     destroy_local |-> destroy_shared,
     todo |-> IF isValid(Heap, this) THEN children[this] ELSE {},
     pc |-> IF isValid(Heap, this) THEN "beforeUpdate" ELSE "exit",
     cur |-> NULL,
     live |-> isValid(Heap, this),
     steps |-> 0,
     pending |-> <<>>]

DriverUpdate ==
    /\ Idle
    /\ \E this \in Ent : callStack' = <<NewFrame(this)>>
    /\ destroy_shared' = FALSE
    /\ ops' = ops + 1
    /\ UNCHANGED <<geo, mesh, motion, invalid, freed, marked, display, parent, children,
                   teardowns, requests, drawError, collisions, fault, crashed>>

\* The entity at the top of the scene's tree: the one without a parent.
Root == 1

\* The main loop's tick: update() on the root of the scene.
DriverTick ==
    /\ Idle
    /\ callStack' = <<NewFrame(Root)>>
    /\ destroy_shared' = FALSE
    /\ ops' = ops + 1
    /\ UNCHANGED <<geo, mesh, motion, invalid, freed, marked, display, parent, children,
                   teardowns, requests, drawError, collisions, fault, crashed>>

Running == callStack # <<>> /\ ~crashed

\* What a hook does besides calling update(): nothing, or one destroy().
HookQuiet ==
    /\ ops' = ops
    /\ UNCHANGED <<invalid, marked, display, parent, children, requests,
                   fault, crashed>>

HookDestroy ==
    /\ ops < MaxOps
    /\ Len(marked) < MaxMarked
    /\ \E x \in Ent \ freed : Commit(requestDestroy(Heap, x))
    /\ ops' = ops + 1

\* The entities whose update() is running.
Updating == {callStack[i].obj : i \in 1..Len(callStack)}

\* An update hook attaches a child to, or detaches one from, an entity whose
\* update() is running (the hook's own entity or one further up the stack);
\* the child is an entity whose update() is not running.
HookAddChild ==
    /\ ops < MaxOps
    /\ \E this \in Updating \ freed, obj \in Ent \ Updating : Commit(addChild(Heap, this, obj))
    /\ ops' = ops + 1

HookRemoveChild ==
    /\ ops < MaxOps
    /\ \E this \in Updating \ freed, obj \in Ent \ Updating : Commit(removeChild(Heap, this, obj))
    /\ ops' = ops + 1

\* A hook calls update() on some entity: a nested call, entered with the
\* caller's frame left at `after`.
HookUpdate(after) ==
    /\ ops < MaxOps
    /\ Len(callStack) < MaxDepth
    /\ \E x \in Ent :
          callStack' = Append(SetTop([Top EXCEPT !.pc = after]), NewFrame(x))
    /\ destroy_shared' = FALSE
    /\ ops' = ops + 1
    /\ UNCHANGED <<invalid, marked, display, parent, children, requests,
                   fault, crashed>>

\* beforeUpdate hook, then the integration step of the entity.
BeforeUpdate ==
    /\ Running
    /\ Top.pc = "beforeUpdate"
    /\ \/ /\ HookQuiet \/ HookDestroy
          /\ Step
          /\ callStack' = SetTop([Top EXCEPT !.pc = "children", !.steps = @ + 1])
          /\ UNCHANGED destroy_shared
       \/ /\ HookUpdate("integrate")
          /\ UNCHANGED motion
    /\ UNCHANGED <<geo, mesh, freed, teardowns, drawError, collisions>>

\* beforeUpdate hook that attaches or detaches a child, then the integration
\* step of the entity.
BeforeUpdateRestructure ==
    /\ Running
    /\ Top.pc = "beforeUpdate"
    /\ HookAddChild \/ HookRemoveChild
    /\ Step
    /\ callStack' = SetTop([Top EXCEPT !.pc = "children", !.steps = @ + 1])
    /\ UNCHANGED <<geo, mesh, freed, destroy_shared, teardowns, drawError, collisions>>

\* The integration step when the hook made a nested call.
Integrate ==
    /\ Running
    /\ Top.pc = "integrate"
    /\ Step
    /\ callStack' = SetTop([Top EXCEPT !.pc = "children", !.steps = @ + 1])
    /\ UNCHANGED <<geo, mesh, invalid, freed, marked, display, parent, children,
                   destroy_shared, teardowns, requests, drawError, collisions,
                   fault, crashed, ops>>

\* The loop over the entity's child set as it is now: a copied child that a
\* hook has detached since is skipped.
nextChildrenLive(f) == f.todo \cap children[f.obj]

\* What `for (const auto &child : children)` has still to visit: the rest of
\* the copy made at entry, whatever the entity's child set has become.
nextChildren(f) == f.todo

\* One iteration of `for (child : children) child->update(now, tick)` over
\* the copy made at entry; the set is unordered.
UpdateChild ==
    /\ Running
    /\ Top.pc = "children"
    /\ Len(callStack) < MaxDepth
    /\ \E c \in nextChildren(Top) :
          callStack' = Append(SetTop([Top EXCEPT !.todo = @ \ {c}]), NewFrame(c))
    /\ destroy_shared' = FALSE
    /\ UNCHANGED <<geo, mesh, motion, invalid, freed, marked, display, parent, children,
                   teardowns, requests, drawError, collisions, fault, crashed,
                   ops>>

\* afterUpdate hook, once the loop over the copy is done.
AfterUpdate ==
    /\ Running
    /\ Top.pc = "children"
    /\ nextChildren(Top) = {}
    /\ \/ /\ HookQuiet \/ HookDestroy
          /\ callStack' = SetTop([Top EXCEPT !.pc = "exit"])
          /\ UNCHANGED destroy_shared
       \/ HookUpdate("exit")
    /\ UNCHANGED <<geo, mesh, motion, freed, teardowns, drawError, collisions>>

\* `if (destroy_local)` is false: the nested call returns.
ReturnNested ==
    /\ Running
    /\ Top.pc = "exit"
    /\ ~Top.destroy_local
    /\ callStack' = Below
    /\ UNCHANGED <<geo, mesh, motion, invalid, freed, marked, display, parent, children,
                   destroy_shared, teardowns, requests, drawError, collisions,
                   fault, crashed, ops>>

\* `if (destroy_local)` is true: the flag is restored and delayedDestroy()
\* is entered.
EnterSweep ==
    /\ Running
    /\ Top.pc = "exit"
    /\ Top.destroy_local
    /\ destroy_shared' = TRUE
    /\ callStack' = SetTop([Top EXCEPT !.pc = "sweep", !.pending = marked])
    /\ UNCHANGED <<geo, mesh, motion, invalid, freed, marked, display, parent, children,
                   teardowns, requests, drawError, collisions, fault, crashed,
                   ops>>

\* ----------------------------------------------------- delayedDestroy
\* The oldest entry of the pending list instead of the newest.
marked_front(s) == s[1]

\* Object::marked.top(): the entry pushed last.
marked_top(s) == s[Len(s)]

\* One test of the while loop: the top of the stack is popped; an entity
\* found invalid is skipped.
SweepPop ==
    /\ Running
    /\ Top.pc = "sweep"
    /\ marked # <<>>
    /\ LET obj == marked_top(marked) IN
          /\ marked' = SubSeq(marked, 1, Len(marked) - 1)
          /\ callStack' = IF isValid(Heap, obj)
                          THEN SetTop([Top EXCEPT !.pc = "beforeDestroy", !.cur = obj])
                          ELSE callStack
          /\ teardowns' = IF isValid(Heap, obj)
                          THEN [teardowns EXCEPT ![obj] = @ + 1]
                          ELSE teardowns
    /\ UNCHANGED <<geo, mesh, motion, invalid, freed, display, parent, children, destroy_shared,
                   requests, drawError, collisions, fault, crashed, ops>>

\* beforeDestroy hook, then the teardown up to the insertion into the
\* registry.
BeforeDestroy ==
    /\ Running
    /\ Top.pc = "beforeDestroy"
    /\ \E hook \in {NULL} \cup (Ent \ freed) :
          /\ hook # NULL => ops < MaxOps /\ Len(marked) < MaxMarked
          /\ ops' = IF hook = NULL THEN ops ELSE ops + 1
          /\ LET h0 == IF hook = NULL THEN Heap ELSE requestDestroy(Heap, hook)
             IN  \E order \in Perms(h0.children[Top.cur]) :
                    LET h == Teardown(h0, Top.cur, order) IN
                       /\ Commit(h)
                       /\ callStack' = IF h.null THEN callStack
                                       ELSE SetTop([Top EXCEPT !.pc = "afterDestroy"])
    /\ UNCHANGED <<geo, mesh, motion, freed, destroy_shared, teardowns, drawError, collisions>>

\* afterDestroy hook, then `delete obj`.
AfterDestroy ==
    /\ Running
    /\ Top.pc = "afterDestroy"
    /\ HookQuiet \/ HookDestroy
    /\ freed' = freed \cup {Top.cur}
    /\ callStack' = SetTop([Top EXCEPT !.pc = "sweep", !.cur = NULL])
    /\ UNCHANGED <<geo, mesh, motion, destroy_shared, teardowns, drawError, collisions>>

\* The stack is empty: delayedDestroy() and the outermost update() return.
ReturnOutermost ==
    /\ Running
    /\ Top.pc = "sweep"
    /\ marked = <<>>
    /\ callStack' = Below
    /\ UNCHANGED <<geo, mesh, motion, invalid, freed, marked, display, parent, children,
                   destroy_shared, teardowns, requests, drawError, collisions,
                   fault, crashed, ops>>

Next ==
    \/ DriverAddChild
    \/ DriverRemoveChild
    \/ DriverSetParent
    \/ DriverRemoveParent
    \/ DriverDestroy
    \/ DriverDraw
    \/ DriverDetectCollisions
    \/ DriverUpdate
    \/ BeforeUpdate
    \/ Integrate
    \/ UpdateChild
    \/ AfterUpdate
    \/ ReturnNested
    \/ EnterSweep
    \/ SweepPop
    \/ BeforeDestroy
    \/ AfterDestroy
    \/ ReturnOutermost

Spec == Init /\ [][Next]_vars

\* ------------------------------------------------- entities in motion
\* A scene as the driver builds it: entity 1 is the root, entity e > 1 was
\* attached by addChild to entity e \div 2.  The entities were constructed
\* with explicit velocities and accelerations: the first with velocity
\* (1,0,0) and acceleration (0,-1,0), the second with a constant velocity,
\* the others at rest.
InitMotion ==
    /\ invalid = {}
    /\ freed = {}
    /\ marked = <<>>
    /\ display = [e \in Ent |-> TRUE]
    /\ parent = [e \in Ent |-> IF e = Root THEN NULL ELSE e \div 2]
    /\ children = [e \in Ent |-> {c \in Ent : c > 1 /\ c \div 2 = e}]
    /\ destroy_shared = TRUE
    /\ callStack = <<>>
    /\ teardowns = [e \in Ent |-> 0]
    /\ requests = [e \in Ent |-> 0]
    /\ drawError = FALSE
    /\ collisions = {}
    /\ fault = FALSE
    /\ crashed = FALSE
    /\ ops = 0
    /\ geo = NoGeo
    /\ mesh = NoShape
    /\ position = [e \in Ent |-> Zero3]
    /\ speed = [e \in Ent |-> IF e = 1 THEN <<1, 0, 0>> ELSE Zero3]
    /\ acceleration = [e \in Ent |-> IF e = 1 THEN <<0, -1, 0>> ELSE Zero3]

\* The tick, with update hooks that also restructure the tree.
NextMotion ==
    \/ DriverTick
    \/ BeforeUpdate
    \/ BeforeUpdateRestructure
    \/ Integrate
    \/ UpdateChild
    \/ AfterUpdate
    \/ ReturnNested
    \/ EnterSweep
    \/ SweepPop
    \/ BeforeDestroy
    \/ AfterDestroy
    \/ ReturnOutermost

SpecMotion == InitMotion /\ [][NextMotion]_vars

\* ------------------------------------------------- the detect calls
\* Operands of a detect call: the first shape sits at its local origin and
\* is placed by its offset, the second is placed by its local position.
\* Rectangles are unrotated; velocities are zero or of length MaxSpeed along
\* an axis.
Radii == 1..MaxRadius
Sizes == {1, MaxSize}
Grid == (-GridMax)..GridMax
Offsets == {Zero3, <<1, 0, 0>>}
Velocities ==
    {Zero3, <<MaxSpeed, 0, 0>>, <<-MaxSpeed, 0, 0>>, <<0, MaxSpeed, 0>>,
     <<0, -MaxSpeed, 0>>}

ShapesAt(_position) ==
    {Rectangle2D(_position, w, h, <<1, 0>>) : w \in Sizes, h \in Sizes}
        \cup {Polygon2D(t, _position, r) : t \in {"polygon2d", "sphere2d"}, r \in Radii}

InitGeo ==
    /\ ObjInit
    /\ MotionDefault
    /\ mesh = NoShape
    /\ \E a \in ShapesAt(Zero3), offA \in Offsets, x \in Grid, y \in Grid :
          \E b \in ShapesAt(<<x, y, 0>>) :
             geo = [stage |-> "input", a |-> a, b |-> b, offA |-> offA,
                    offB |-> Zero3, velA |-> Zero3, velB |-> Zero3,
                    ab |-> FALSE, ba |-> FALSE]

\* detect(A, B, ...) and detect(B, A, ...) through the public entry, with
\* try_inverse at its default, for some velocities of the two operands.
Detect ==
    /\ geo.stage = "input"
    /\ \E velA \in Velocities, velB \in Velocities :
          geo' = [geo EXCEPT
                     !.stage = "done", !.velA = velA, !.velB = velB,
                     !.ab = detectCollision(geo.a, geo.b, geo.offA, velA,
                                            geo.offB, velB, TRUE),
                     !.ba = detectCollision(geo.b, geo.a, geo.offB, velB,
                                            geo.offA, velA, TRUE)]
    /\ UNCHANGED <<objVars, motion, mesh>>

NextGeo == Detect

SpecGeo == InitGeo /\ [][NextGeo]_vars

\* ------------------------------------------------- the rectangle setters
\* Angles are the multiples of 90 degrees, as <<cos, sin>>.
Angles == {<<1, 0>>, <<0, 1>>, <<-1, 0>>, <<0, -1>>}
GridPoints == {<<x, y, 0>> : x \in Grid, y \in Grid}

\* Mesh::setPosition: not virtual, it assigns the position and nothing else.
Mesh_setPosition(this, _position) == [this EXCEPT !.position = _position]

\* Rectangle2D::setWidth, setHeight, setAngle
setWidth(this, _width) == updatePositions([this EXCEPT !.width = _width])
setHeight(this, _height) == updatePositions([this EXCEPT !.height = _height])
setAngle(this, _angle) == updatePositions([this EXCEPT !.angle = _angle])

\* Rectangle2D::setPosition: hides Mesh::setPosition, calls it and
\* recomputes the corners.
Rectangle2D_setPosition(this, _position) ==
    updatePositions(Mesh_setPosition(this, _position))

\* A rectangle as its constructor leaves it.
InitRect ==
    /\ ObjInit
    /\ MotionDefault
    /\ geo = NoGeo
    /\ \E p \in GridPoints, w \in Sizes, h \in Sizes, a \in Angles :
          mesh = Rectangle2D(p, w, h, a)

CallSetWidth ==
    /\ \E w \in Sizes : mesh' = setWidth(mesh, w)
    /\ UNCHANGED <<objVars, geo, motion>>

CallSetHeight ==
    /\ \E h \in Sizes : mesh' = setHeight(mesh, h)
    /\ UNCHANGED <<objVars, geo, motion>>

CallSetAngle ==
    /\ \E a \in Angles : mesh' = setAngle(mesh, a)
    /\ UNCHANGED <<objVars, geo, motion>>

\* r.setPosition(p) on an expression of type Rectangle2D.
CallSetPosition ==
    /\ \E p \in GridPoints : mesh' = Rectangle2D_setPosition(mesh, p)
    /\ UNCHANGED <<objVars, geo, motion>>

\* m.setPosition(p) on an expression of type Mesh that refers to the
\* rectangle: the call is bound statically to Mesh::setPosition.
CallSetPositionThroughMesh ==
    /\ \E p \in GridPoints : mesh' = Mesh_setPosition(mesh, p)
    /\ UNCHANGED <<objVars, geo, motion>>

NextRect ==
    \/ CallSetWidth
    \/ CallSetHeight
    \/ CallSetAngle
    \/ CallSetPosition
    \/ CallSetPositionThroughMesh

SpecRect == InitRect /\ [][NextRect]_vars

\* ============================================================= claims
SweepPcs == {"sweep", "beforeDestroy", "afterDestroy"}

\* C1: however many destroy() requests an entity receives, its teardown
\* (the body of delayedDestroy's `if`) is entered at most once in a run.
C1_TeardownAtMostOnce == \A e \in Ent : teardowns[e] <= 1

\* C1 witness: an entity requested twice has been torn down once and freed,
\* and the sweep has drained the stack and returned.
C1_Witness ==
    \E e \in Ent :
        /\ requests[e] >= 2 /\ teardowns[e] = 1 /\ e \in freed
        /\ marked = <<>> /\ callStack = <<>> /\ ~crashed

\* C2 as stated: no entity occurs twice in the pending list.
C2_NoDoubleEnqueue ==
    \A i, j \in 1..Len(marked) : i # j => marked[i] # marked[j]

\* C2 amended: a destroy() on an entity that is already pending pushes one
\* more entry for it (and leaves display false); the list is not deduplicated.
C2_PendingDestroyPushes ==
    [][\A e \in Ent :
          (requests'[e] = requests[e] + 1 /\ e \in Range(marked))
              => /\ Len(marked') > Len(marked)
                 /\ SubSeq(marked', 1, Len(marked) + 1) = Append(marked, e)
                 /\ ~display'[e]]_vars

\* C2 witness: the pending list holds an entity twice, after two requests.
C2_Witness ==
    \E i, j \in 1..Len(marked) :
        i < j /\ marked[i] = marked[j] /\ requests[marked[i]] >= 2

\* C3: the registry and the set of freed entities change only in the sweep
\* of the outermost update(): the only frame on the call stack is then the
\* outermost one, and it has left its traversal.
C3_SweepOnlyOutermost ==
    [][(freed' # freed \/ invalid' # invalid)
          => (callStack # <<>> /\ Len(callStack) = 1 /\ Top.pc \in SweepPcs)]_vars

\* C3 witness: a nested update() is about to return while a destruction is
\* pending, and nothing has been freed.
C3_Witness ==
    /\ Len(callStack) >= 2
    /\ Top.pc = "exit" /\ ~Top.destroy_local
    /\ marked # <<>> /\ freed = {} /\ invalid = {}

\* C4 as stated: once destroy() has returned on an entity, the validity test
\* reports it invalid.
C4_InvalidOnRequest ==
    \A e \in Ent : requests[e] > 0 => ~isValid(Heap, e)

\* C4 amended: from the return of destroy() until the sweep pops the entity,
\* the entity is pending with display false, the validity test still reports
\* it valid and its storage is allocated; it is invalid or freed only after
\* its teardown was entered.
C4_ValidUntilSweep ==
    \A e \in Ent :
        /\ (requests[e] > 0 /\ teardowns[e] = 0)
              => /\ isValid(Heap, e) /\ e \notin freed
                 /\ ~display[e] /\ e \in Range(marked)
        /\ (~isValid(Heap, e) \/ e \in freed) => teardowns[e] >= 1

\* C4 witness: an entity whose destruction was requested is being traversed
\* by update() (the request came before or from its own beforeUpdate hook).
C4_Witness ==
    /\ callStack # <<>>
    /\ Top.pc = "children"
    /\ requests[Top.obj] > 0 /\ teardowns[Top.obj] = 0
    /\ isValid(Heap, Top.obj)

\* C5: the sweep runs to its end (no step of it aborts), and when the
\* outermost update() returns the pending list is empty, every entity whose
\* destruction was requested is invalid, freed and in no child set, and no
\* entity that is still allocated has a freed parent.
C5_SweepCompletes ==
    [][(callStack # <<>> /\ ~crashed)
          => /\ (Top.pc \in SweepPcs => ~crashed')
             /\ (callStack' = <<>>
                   => /\ marked' = <<>>
                      /\ \A e \in Ent :
                            requests[e] > 0
                               => /\ e \in freed' /\ e \in invalid'
                                  /\ \A p \in Ent : e \notin children'[p]
                      /\ \A c \in Ent \ freed' : parent'[c] \notin freed')]_vars

\* Entities reachable from e through the child sets in 1..n steps.
RECURSIVE Descendants(_, _)
Descendants(e, n) ==
    IF n = 0 THEN {}
    ELSE children[e] \cup UNION {Descendants(c, n - 1) : c \in children[e]}

\* C6: the child sets form a forest that agrees with the parent references.
C6_Forest ==
    \A e \in Ent :
        /\ \A p, q \in Ent : (e \in children[p] /\ e \in children[q]) => p = q
        /\ \A p \in Ent : e \in children[p] => parent[e] = p
        /\ e \notin Descendants(e, NumObjects)

\* C7: no step dereferences a null parent reference or a freed entity.
C7_NoFault == ~fault

\* C9: detect gives the same answer with the operands swapped.
C9_DetectSymmetric == geo.stage = "done" => geo.ab = geo.ba

\* The circle (centre c, radius r) against an unrotated rectangle with
\* opposite corners tl and br, computed from coordinates: the distance to the
\* nearest point of the boundary, and containment of the centre.
Clamp(v, lo, hi) == IF v < lo THEN lo ELSE IF v > hi THEN hi ELSE v
CentreInside(tl, br, c) ==
    tl[1] <= c[1] /\ c[1] <= br[1] /\ br[2] <= c[2] /\ c[2] <= tl[2]
NearEdge(tl, br, c, r) ==
    LET nx == Clamp(c[1], tl[1], br[1])
        ny == Clamp(c[2], br[2], tl[2])
        \* nearest boundary point to a centre inside: the closest side
        dx == IF c[1] - tl[1] < br[1] - c[1] THEN c[1] - tl[1] ELSE br[1] - c[1]
        dy == IF c[2] - br[2] < tl[2] - c[2] THEN c[2] - br[2] ELSE tl[2] - c[2]
        d == IF dx < dy THEN dx ELSE dy
    IN  IF CentreInside(tl, br, c) THEN d * d <= r * r
        ELSE (c[1] - nx) * (c[1] - nx) + (c[2] - ny) * (c[2] - ny) <= r * r

\* C10: a stationary polygon or circle against a stationary rectangle is
\* reported as colliding iff the circle comes within its radius of an edge
\* of the rectangle or its centre lies inside the rectangle.
C10_CircleRectangle ==
    (/\ geo.stage = "done"
     /\ geo.a.type \in {"polygon2d", "sphere2d"}
     /\ geo.b.type = "rectangle2d"
     /\ zero(geo.velA) /\ zero(geo.velB))
        => LET c == Vadd(geo.offA, geo.a.position)
               tl == Vadd(geo.offB, geo.b.position)
               br == Vadd(geo.offB, geo.b.bottom_right)
           IN  geo.ab <=> (NearEdge(tl, br, c, geo.a.radius) \/ CentreInside(tl, br, c))

\* C11: one update() call on a live entity makes exactly one integration
\* step on that entity, between its beforeUpdate hook and the loop over its
\* children: position' = position + speed, speed' = speed + acceleration,
\* acceleration unchanged; nothing else ever changes an entity's motion, and
\* a call on an invalid entity makes no step.
C11_OneIntegrationStep ==
    [][LET n == Len(callStack)
           stepNow == /\ n > 0 /\ Len(callStack') = n
                      /\ Top.pc \in {"beforeUpdate", "integrate"}
                      /\ callStack'[n].pc = "children"
       IN  /\ stepNow =>
                 LET o == Top.obj IN
                    /\ position' = [position EXCEPT ![o] = Vadd(position[o], speed[o])]
                    /\ speed' = [speed EXCEPT ![o] = Vadd(speed[o], acceleration[o])]
                    /\ acceleration' = acceleration
           /\ ~stepNow => motion' = motion
           /\ \A i \in 1..Len(callStack') :
                 LET f == callStack'[i] IN
                    f.steps = IF f.pc \in {"beforeUpdate", "integrate"} THEN 0
                              ELSE IF f.live THEN 1 ELSE 0]_vars

\* C11 witness: after the single call update() on the entity constructed with
\* position (0,0,0), velocity (1,0,0) and acceleration (0,-1,0), it is at
\* (1,0,0) with velocity (1,-1,0).
C11_Witness ==
    /\ callStack = <<>> /\ ops = 1 /\ ~crashed
    /\ position[1] = <<1, 0, 0>>
    /\ speed[1] = <<1, -1, 0>>
    /\ acceleration[1] = <<0, -1, 0>>

\* The last place of entity e in the sequence s (0 when it has none).
LastIndex(s, e) ==
    IF e \in Range(s) THEN CHOOSE i \in 1..Len(s) :
                              s[i] = e /\ \A j \in (i + 1)..Len(s) : s[j] # e
    ELSE 0
FirstIndex(s, e) ==
    IF e \in Range(s) THEN CHOOSE i \in 1..Len(s) :
                              s[i] = e /\ \A j \in 1..(i - 1) : s[j] # e
    ELSE 0

\* A teardown begins in this step: the sweep has popped a valid entity.
TeardownBegins ==
    /\ callStack # <<>> /\ Top.pc = "sweep"
    /\ Len(callStack') = Len(callStack)
    /\ callStack'[Len(callStack)].pc = "beforeDestroy"

ChildVisited ==
    /\ callStack # <<>> /\ Top.pc = "children"
    /\ Len(callStack') = Len(callStack) + 1
    /\ callStack'[Len(callStack)].pc = "children"

\* C13 as stated: a child of the copy whose destruction was requested before
\* its turn gets no hooks and no integration step when its turn comes.
C13_RequestedChildSkipped ==
    [][ChildVisited =>
          LET callee == callStack'[Len(callStack')] IN
             requests[callee.obj] > 0 => ~callee.live]_vars

\* C13 amended: update() visits exactly the children copied when the call
\* began, each once, whatever the hooks add to or remove from the child set
\* or request to destroy: every visit takes a child out of the rest of the
\* copy, nothing else changes the rest, and the call leaves its loop only
\* when the rest is empty.  A visited child runs its hooks and its
\* integration step exactly when it is still valid, and a child whose
\* destruction was only requested is still valid.
C13_SnapshotTraversal ==
    [][LET n == Len(callStack)
           n2 == Len(callStack')
       IN  /\ ChildVisited =>
                 LET callee == callStack'[n2] IN
                    /\ callee.obj \in Top.todo
                    /\ callStack'[n].todo = Top.todo \ {callee.obj}
                    /\ callee.live = isValid(Heap, callee.obj)
                    /\ callee.pc = IF callee.live THEN "beforeUpdate" ELSE "exit"
                    /\ callee.todo = IF callee.live THEN children[callee.obj] ELSE {}
                    /\ (requests[callee.obj] > 0 /\ teardowns[callee.obj] = 0
                          /\ callee.obj \notin freed) => callee.live
           /\ ~ChildVisited =>
                 \A i \in 1..n : i <= n2 => callStack'[i].todo = callStack[i].todo
           /\ (n > 0 /\ n2 = n /\ Top.pc = "children" /\ callStack'[n].pc # "children")
                 => Top.todo = {}]_vars

\* C13 witness: a child visited by its parent's loop has run its hook and its
\* integration step although its destruction had been requested, while the
\* parent's child set is no longer the set that was copied.
C13_Witness ==
    /\ Len(callStack) >= 2 /\ ~crashed
    /\ callStack[Len(callStack) - 1].pc = "children"
    /\ Top.pc = "children" /\ Top.live /\ Top.steps = 1
    /\ requests[Top.obj] > 0
    /\ Top.obj \in Range(marked)
    /\ Top.obj \notin children[callStack[Len(callStack) - 1].obj]

\* C14: after any setter of a rectangle has returned, called through
\* Rectangle2D or through Mesh, the three derived corners are the function of
\* the current top-left position, width, height and angle that
\* updatePositions computes.
C14_CornersCurrent ==
    mesh.type = "rectangle2d" => mesh = updatePositions(mesh)

====
